---------------------------- MODULE Spec2Model ----------------------------
(***************************************************************************)
(* Model of the altcoin-bech32 crate: the WitnessProgram value type        *)
(* (src/src/lib.rs), the network / human-readable-part tables              *)
(* (src/src/constants.rs) and the bech32 codec the crate calls.            *)
(*                                                                         *)
(* Text is a sequence of ASCII codes, bytes are 0..255, 5-bit symbols      *)
(* (the crate's u5) are 0..31.  The codec is the external `bech32` crate   *)
(* (the 0.6/0.7 API imported at lib.rs:66); it is modelled from BIP-173    *)
(* and the contract of spec section 6, checksum included, so that          *)
(* encoding and decoding are two different computations.                   *)
(***************************************************************************)
EXTENDS Integers, Sequences, FiniteSets, TLC

(***************************************************************************)
(* Bounds of the explored inputs.                                          *)
(***************************************************************************)
\* witness versions offered to the constructors: 0..MaxVersion (u5 is 0..31)
MaxVersion == 17
\* program byte patterns: pattern numbers 0..MaxPattern
MaxPattern == 1
\* short program lengths 0..MaxShortLen, next to the boundary lengths
MaxShortLen == 3
\* to_address() calls recorded per instance
MaxCalls == 2

(***************************************************************************)
(* Generic helpers.                                                        *)
(***************************************************************************)
Pow2(n) == 2 ^ n

\* a function on 1..n as a finite sequence
Tuple(f) == f \o <<>>

\* exclusive or of two naturals below 2^bits, bit by bit
RECURSIVE XorBits(_, _, _)
XorBits(a, b, bits) ==
    IF bits = 0 THEN 0
    ELSE ((a + b) % 2) + 2 * XorBits(a \div 2, b \div 2, bits - 1)

\* the exclusive-or table of 5-bit values: Xor5[a + 1][b + 1] = a ^ b
Xor5 == Tuple([a \in 1..32 |-> Tuple([b \in 1..32 |-> XorBits(a - 1, b - 1, 5)])])

\* bit i of natural n
Bit(n, i) == (n \div Pow2(i)) % 2

\* Option<Network>
None == [some |-> FALSE, net |-> ""]
Some(n) == [some |-> TRUE, net |-> n]

(***************************************************************************)
(* The bech32 codec (external crate `bech32`).                             *)
(***************************************************************************)
\* "qpzry9x8gf2tvdw0s3jn54khce6mua7l"
CHARSET ==
    <<113, 112, 122, 114, 121, 57, 120, 56, 103, 102, 50, 116, 118, 100, 119, 48,
      115, 51, 106, 110, 53, 52, 107, 104, 99, 101, 54, 109, 117, 97, 55, 108>>

\* the separator '1'
SEP == 49

\* generator coefficients of the BCH checksum
GEN == <<996825010, 642813549, 513874426, 1027748829, 705979059>>

IsLower(c) == c >= 97 /\ c <= 122
IsUpper(c) == c >= 65 /\ c <= 90
ToLowerChar(c) == IF IsUpper(c) THEN c + 32 ELSE c
ToUpperChar(c) == IF IsLower(c) THEN c - 32 ELSE c
ToLower(s) == Tuple([i \in 1..Len(s) |-> ToLowerChar(s[i])])
ToUpper(s) == Tuple([i \in 1..Len(s) |-> ToUpperChar(s[i])])

\* CHARSET_REV: for each ASCII code 0..127 (index code + 1) the symbol the
\* character stands for, in either case, or -1
CHARSET_REV ==
    Tuple([k \in 1..128 |->
        IF \E j \in 1..32 : CHARSET[j] = ToLowerChar(k - 1)
        THEN (CHOOSE j \in 1..32 : CHARSET[j] = ToLowerChar(k - 1)) - 1
        ELSE -1])

\* a 30-bit word as its six 5-bit groups, most significant first
Groups(w) == Tuple([i \in 1..6 |-> (w \div Pow2(5 * (6 - i))) % 32])

\* what polymod xors into the shifted state for top bits b (0..31): the xor
\* of every GEN[i + 1] whose bit i is set in b, as 5-bit groups
GenMask ==
    Tuple([b \in 1..32 |->
        Groups(XorBits(XorBits(XorBits(XorBits(
                   (IF Bit(b - 1, 0) = 1 THEN GEN[1] ELSE 0),
                   (IF Bit(b - 1, 1) = 1 THEN GEN[2] ELSE 0), 30),
                   (IF Bit(b - 1, 2) = 1 THEN GEN[3] ELSE 0), 30),
                   (IF Bit(b - 1, 3) = 1 THEN GEN[4] ELSE 0), 30),
                   (IF Bit(b - 1, 4) = 1 THEN GEN[5] ELSE 0), 30))])

\* one step of polymod on the state chk (six 5-bit groups of the 30-bit
\* word): b = chk >> 25; chk = (chk & 0x1ffffff) << 5 ^ v; then chk ^= GEN[i]
\* for every bit i of b
PolymodStep(chk, v) ==
    LET g == GenMask[chk[1] + 1]
    IN  << Xor5[chk[2] + 1][g[1] + 1], Xor5[chk[3] + 1][g[2] + 1],
           Xor5[chk[4] + 1][g[3] + 1], Xor5[chk[5] + 1][g[4] + 1],
           Xor5[chk[6] + 1][g[5] + 1], Xor5[v + 1][g[6] + 1] >>

\* the loop of polymod over values[i..]; the test on Len(chk) never holds and
\* only makes chk a value before the next step is taken
RECURSIVE PolymodFrom(_, _, _)
PolymodFrom(chk, values, i) ==
    IF Len(chk) # 6 \/ i > Len(values) THEN chk
    ELSE PolymodFrom(PolymodStep(chk, values[i]), values, i + 1)

\* polymod, started from the word 1
Polymod(values) == PolymodFrom(<<0, 0, 0, 0, 0, 1>>, values, 1)

\* hrp_expand: high bits of each character, a zero, low bits of each
HrpExpand(h) ==
    [i \in 1..Len(h) |-> h[i] \div 32] \o <<0>> \o [i \in 1..Len(h) |-> h[i] % 32]

\* create_checksum: polymod of the padded input, xor 1, as six symbols
CreateChecksum(h, data) ==
    LET plm == Polymod(HrpExpand(h) \o data \o <<0, 0, 0, 0, 0, 0>>)
    IN  <<plm[1], plm[2], plm[3], plm[4], plm[5], Xor5[plm[6] + 1][1 + 1]>>

\* verify_checksum: polymod of hrp and data (checksum included) is 1
VerifyChecksum(h, data) == Polymod(HrpExpand(h) \o data) = <<0, 0, 0, 0, 0, 1>>

\* Result<String, bech32::Error> of encode
EncodeOk(t) == [ok |-> TRUE, err |-> "", text |-> t]
EncodeErr(e) == [ok |-> FALSE, err |-> e, text |-> <<>>]

\* Result<(String, Vec<u5>), bech32::Error> of decode
DecodeOk(h, d) == [ok |-> TRUE, err |-> "", hrp |-> h, data |-> d]
DecodeErr(e) == [ok |-> FALSE, err |-> e, hrp |-> <<>>, data |-> <<>>]

\* bech32::encode: hrp, separator, then data and checksum symbols as
\* lower-case characters; only an empty hrp is refused
Bech32Encode(h, data) ==
    IF Len(h) = 0 THEN EncodeErr("InvalidLength")
    ELSE LET syms == data \o CreateChecksum(h, data)
         IN  EncodeOk(h \o <<SEP>> \o [i \in 1..Len(syms) |-> CHARSET[syms[i] + 1]])

\* position of the last separator in s, 0 when there is none (str::rfind)
RFindSep(s) ==
    IF \E i \in 1..Len(s) : s[i] = SEP
    THEN CHOOSE i \in 1..Len(s) : s[i] = SEP /\ \A j \in (i + 1)..Len(s) : s[j] # SEP
    ELSE 0

\* the symbol of a data character, -1 for a character outside the charset
SymbolOf(c) == IF c < 0 \/ c > 127 THEN -1 ELSE CHARSET_REV[c + 1]

\* bech32::decode: length, separator, character set, case and checksum are
\* checked in this order; the hrp comes back in lower case, the data
\* without its six checksum symbols
Bech32Decode(s) ==
    IF Len(s) < 8 THEN DecodeErr("InvalidLength")
    ELSE IF RFindSep(s) = 0 THEN DecodeErr("MissingSeparator")
    ELSE LET sep       == RFindSep(s)
             raw_hrp   == SubSeq(s, 1, sep - 1)
             raw_data  == SubSeq(s, sep + 1, Len(s))
             hrp_bytes == ToLower(raw_hrp)
             data      == Tuple([i \in 1..Len(raw_data) |-> SymbolOf(raw_data[i])])
             has_lower == \E i \in 1..Len(s) : IsLower(s[i])
             has_upper == \E i \in 1..Len(s) : IsUpper(s[i])
         IN  IF Len(raw_hrp) < 1 \/ Len(raw_data) < 6 THEN DecodeErr("InvalidLength")
             ELSE IF \E i \in 1..Len(raw_hrp) : raw_hrp[i] < 33 \/ raw_hrp[i] > 126
                  THEN DecodeErr("InvalidChar")
             ELSE IF \E i \in 1..Len(data) : data[i] < 0
                  THEN DecodeErr("InvalidChar")
             ELSE IF has_lower /\ has_upper THEN DecodeErr("MixedCase")
             ELSE IF ~VerifyChecksum(hrp_bytes, data) THEN DecodeErr("InvalidChecksum")
             ELSE DecodeOk(hrp_bytes, SubSeq(data, 1, Len(data) - 6))

\* convert_bits: regroup `from`-bit values into `to`-bit values.  acc keeps
\* only the `bits` low bits still to be emitted.
RECURSIVE Drain(_, _, _, _)
Drain(acc, bits, to, ret) ==
    IF bits >= to
    THEN Drain(acc % Pow2(bits - to), bits - to, to, Append(ret, acc \div Pow2(bits - to)))
    ELSE [acc |-> acc, bits |-> bits, ret |-> ret]

\* the loop of convert_bits over data[i..]; the test on st.bits never holds
\* and only makes st a value before the next step is taken
RECURSIVE ConvertLoop(_, _, _, _, _)
ConvertLoop(data, i, st, from, to) ==
    IF st.bits < 0 \/ i > Len(data) THEN st
    ELSE ConvertLoop(data, i + 1,
                     Drain(st.acc * Pow2(from) + data[i], st.bits + from, to, st.ret),
                     from, to)

ConvertBits(data, from, to, pad) ==
    LET st == ConvertLoop(data, 1, [acc |-> 0, bits |-> 0, ret |-> <<>>], from, to)
    IN  IF \E i \in 1..Len(data) : data[i] \div Pow2(from) # 0
        THEN [ok |-> FALSE, err |-> "InvalidData", out |-> <<>>]
        ELSE IF pad
        THEN [ok |-> TRUE, err |-> "",
              out |-> IF st.bits > 0
                      THEN Append(st.ret, (st.acc * Pow2(to - st.bits)) % Pow2(to))
                      ELSE st.ret]
        ELSE IF st.bits >= from \/ (st.acc * Pow2(to - st.bits)) % Pow2(to) # 0
        THEN [ok |-> FALSE, err |-> "InvalidPadding", out |-> <<>>]
        ELSE [ok |-> TRUE, err |-> "", out |-> st.ret]

\* ToBase32 for byte slices: 8-bit to 5-bit, padded
ToBase32(bytes) == ConvertBits(bytes, 8, 5, TRUE).out

\* FromBase32 for Vec<u8>: 5-bit to 8-bit, padding must be zero bits
FromBase32(syms) == ConvertBits(syms, 5, 8, FALSE)


(***************************************************************************)
(* constants.rs: the networks and their human-readable parts.              *)
(***************************************************************************)
\* the variants of enum Network
Network ==
    {"Bitcoin", "Testnet", "Signet", "Regtest",
     "Bellcoin", "BellcoinTestnet", "BitZeny", "BitZenyTestnet",
     "CranePay", "CranePayTestnet", "CryptoComChain", "CryptoComChainTestnet",
     "DigiByte", "DigiByteTestnet", "FujiCoin", "FujiCoinTestnet",
     "Groestlcoin", "GroestlcoinTestnet", "Handshake", "HandshakeTestnet",
     "Litecoin", "LitecoinTestnet", "Monacoin", "MonacoinTestnet",
     "Myriad", "MyriadTestnet", "Namecoin", "NamecoinTestnet",
     "Peercoin", "PeercoinTestnet", "PKT", "PKTTestnet",
     "QuantumResistantLedger", "QuantumResistantLedgerTestnet", "Ravencoin", "RavencoinTestnet",
     "Susucoin", "SusucoinTestnet", "Unite", "UniteTestnet",
     "Vertcoin", "VertcoinTestnet", "Viacoin", "ViacoinTestnet",
     "VIPSTARCOIN", "VIPSTARCOINTestnet", "ZenProtocol", "ZenProtocolTestnet",
     "Zilliqa", "ZilliqaTestnet"}

\* hrp(): the human-readable part of a network.  The match has an arm for
\* Network::MonacoinRegtest, which enum Network does not declare.
hrp(network) ==
    CASE network = "Bitcoin" -> <<98, 99>>  \* "bc"
      [] network = "Testnet" -> <<116, 98>>  \* "tb"
      [] network = "Signet" -> <<115, 98>>  \* "sb"
      [] network = "Bellcoin" -> <<98, 109>>  \* "bm"
      [] network = "BellcoinTestnet" -> <<98, 116>>  \* "bt"
      [] network = "BitZeny" -> <<98, 122>>  \* "bz"
      [] network = "BitZenyTestnet" -> <<116, 122>>  \* "tz"
      [] network = "CranePay" -> <<99, 112>>  \* "cp"
      [] network = "CranePayTestnet" -> <<99, 112, 116>>  \* "cpt"
      [] network = "CryptoComChain" -> <<99, 114, 111>>  \* "cro"
      [] network = "CryptoComChainTestnet" -> <<116, 99, 114, 111>>  \* "tcro"
      [] network = "DigiByte" -> <<100, 103, 98>>  \* "dgb"
      [] network = "DigiByteTestnet" -> <<100, 103, 98, 116>>  \* "dgbt"
      [] network = "FujiCoin" -> <<102, 99>>  \* "fc"
      [] network = "FujiCoinTestnet" -> <<116, 102>>  \* "tf"
      [] network = "Groestlcoin" -> <<103, 114, 115>>  \* "grs"
      [] network = "GroestlcoinTestnet" -> <<116, 103, 114, 115>>  \* "tgrs"
      [] network = "Handshake" -> <<104, 115>>  \* "hs"
      [] network = "HandshakeTestnet" -> <<116, 115>>  \* "ts"
      [] network = "Litecoin" -> <<108, 116, 99>>  \* "ltc"
      [] network = "LitecoinTestnet" -> <<116, 108, 116, 99>>  \* "tltc"
      [] network = "Monacoin" -> <<109, 111, 110, 97>>  \* "mona"
      [] network = "MonacoinTestnet" -> <<116, 109, 111, 110, 97>>  \* "tmona"
      [] network = "MonacoinRegtest" -> <<114, 109, 111, 110, 97>>  \* "rmona"
      [] network = "Myriad" -> <<109, 121>>  \* "my"
      [] network = "MyriadTestnet" -> <<116, 109>>  \* "tm"
      [] network = "Namecoin" -> <<110, 99>>  \* "nc"
      [] network = "NamecoinTestnet" -> <<116, 110>>  \* "tn"
      [] network = "Peercoin" -> <<120, 112, 99>>  \* "xpc"
      [] network = "PeercoinTestnet" -> <<116, 112, 99>>  \* "tpc"
      [] network = "PKT" -> <<112, 107, 116>>  \* "pkt"
      [] network = "PKTTestnet" -> <<116, 112, 107>>  \* "tpk"
      [] network = "QuantumResistantLedger" -> <<113, 114, 108>>  \* "qrl"
      [] network = "QuantumResistantLedgerTestnet" -> <<116, 113, 114, 108>>  \* "tqrl"
      [] network = "Ravencoin" -> <<114, 99>>  \* "rc"
      [] network = "RavencoinTestnet" -> <<116, 114>>  \* "tr"
      [] network = "Susucoin" -> <<115, 117, 115, 117>>  \* "susu"
      [] network = "SusucoinTestnet" -> <<116, 117, 116, 117>>  \* "tutu"
      [] network = "Unite" -> <<117, 101>>  \* "ue"
      [] network = "UniteTestnet" -> <<116, 117, 101>>  \* "tue"
      [] network = "Vertcoin" -> <<118, 116, 99>>  \* "vtc"
      [] network = "VertcoinTestnet" -> <<116, 118, 116, 99>>  \* "tvtc"
      [] network = "Viacoin" -> <<118, 105, 97>>  \* "via"
      [] network = "ViacoinTestnet" -> <<116, 118, 105, 97>>  \* "tvia"
      [] network = "VIPSTARCOIN" -> <<118, 105, 112, 115>>  \* "vips"
      [] network = "VIPSTARCOINTestnet" -> <<116, 118, 105, 112, 115>>  \* "tvips"
      [] network = "ZenProtocol" -> <<122, 101, 110>>  \* "zen"
      [] network = "ZenProtocolTestnet" -> <<116, 122, 110>>  \* "tzn"
      [] network = "Zilliqa" -> <<122, 105, 108>>  \* "zil"
      [] network = "ZilliqaTestnet" -> <<116, 122, 105, 108>>  \* "tzil"
      [] network = "Regtest" -> <<98, 99, 114, 116>>  \* "bcrt"

\* classify(): the network of a human-readable part, None for any other
\* string.  "rmona" is classified as Network::MonacoinRegtest, which enum
\* Network does not declare.
classify(h) ==
    CASE h = <<98, 99>> -> Some("Bitcoin")  \* "bc"
      [] h = <<116, 98>> -> Some("Testnet")  \* "tb"
      [] h = <<115, 98>> -> Some("Signet")  \* "sb"
      [] h = <<98, 109>> -> Some("Bellcoin")  \* "bm"
      [] h = <<98, 116>> -> Some("BellcoinTestnet")  \* "bt"
      [] h = <<98, 122>> -> Some("BitZeny")  \* "bz"
      [] h = <<116, 122>> -> Some("BitZenyTestnet")  \* "tz"
      [] h = <<99, 112>> -> Some("CranePay")  \* "cp"
      [] h = <<99, 112, 116>> -> Some("CranePayTestnet")  \* "cpt"
      [] h = <<99, 114, 111>> -> Some("CryptoComChain")  \* "cro"
      [] h = <<116, 99, 114, 111>> -> Some("CryptoComChainTestnet")  \* "tcro"
      [] h = <<100, 103, 98>> -> Some("DigiByte")  \* "dgb"
      [] h = <<100, 103, 98, 116>> -> Some("DigiByteTestnet")  \* "dgbt"
      [] h = <<102, 99>> -> Some("FujiCoin")  \* "fc"
      [] h = <<116, 102>> -> Some("FujiCoinTestnet")  \* "tf"
      [] h = <<103, 114, 115>> -> Some("Groestlcoin")  \* "grs"
      [] h = <<116, 103, 114, 115>> -> Some("GroestlcoinTestnet")  \* "tgrs"
      [] h = <<104, 115>> -> Some("Handshake")  \* "hs"
      [] h = <<116, 115>> -> Some("HandshakeTestnet")  \* "ts"
      [] h = <<108, 116, 99>> -> Some("Litecoin")  \* "ltc"
      [] h = <<116, 108, 116, 99>> -> Some("LitecoinTestnet")  \* "tltc"
      [] h = <<109, 111, 110, 97>> -> Some("Monacoin")  \* "mona"
      [] h = <<116, 109, 111, 110, 97>> -> Some("MonacoinTestnet")  \* "tmona"
      [] h = <<114, 109, 111, 110, 97>> -> Some("MonacoinRegtest")  \* "rmona"
      [] h = <<109, 121>> -> Some("Myriad")  \* "my"
      [] h = <<116, 109>> -> Some("MyriadTestnet")  \* "tm"
      [] h = <<110, 99>> -> Some("Namecoin")  \* "nc"
      [] h = <<116, 110>> -> Some("NamecoinTestnet")  \* "tn"
      [] h = <<120, 112, 99>> -> Some("Peercoin")  \* "xpc"
      [] h = <<116, 112, 99>> -> Some("PeercoinTestnet")  \* "tpc"
      [] h = <<112, 107, 116>> -> Some("PKT")  \* "pkt"
      [] h = <<116, 112, 107>> -> Some("PKTTestnet")  \* "tpk"
      [] h = <<113, 114, 108>> -> Some("QuantumResistantLedger")  \* "qrl"
      [] h = <<116, 113, 114, 108>> -> Some("QuantumResistantLedgerTestnet")  \* "tqrl"
      [] h = <<114, 99>> -> Some("Ravencoin")  \* "rc"
      [] h = <<116, 114>> -> Some("RavencoinTestnet")  \* "tr"
      [] h = <<115, 117, 115, 117>> -> Some("Susucoin")  \* "susu"
      [] h = <<116, 117, 116, 117>> -> Some("SusucoinTestnet")  \* "tutu"
      [] h = <<117, 101>> -> Some("Unite")  \* "ue"
      [] h = <<116, 117, 101>> -> Some("UniteTestnet")  \* "tue"
      [] h = <<118, 116, 99>> -> Some("Vertcoin")  \* "vtc"
      [] h = <<116, 118, 116, 99>> -> Some("VertcoinTestnet")  \* "tvtc"
      [] h = <<118, 105, 97>> -> Some("Viacoin")  \* "via"
      [] h = <<116, 118, 105, 97>> -> Some("ViacoinTestnet")  \* "tvia"
      [] h = <<118, 105, 112, 115>> -> Some("VIPSTARCOIN")  \* "vips"
      [] h = <<116, 118, 105, 112, 115>> -> Some("VIPSTARCOINTestnet")  \* "tvips"
      [] h = <<122, 101, 110>> -> Some("ZenProtocol")  \* "zen"
      [] h = <<116, 122, 110>> -> Some("ZenProtocolTestnet")  \* "tzn"
      [] h = <<122, 105, 108>> -> Some("Zilliqa")  \* "zil"
      [] h = <<116, 122, 105, 108>> -> Some("ZilliqaTestnet")  \* "tzil"
      [] h = <<98, 99, 114, 116>> -> Some("Regtest")  \* "bcrt"
      [] OTHER -> None

(***************************************************************************)
(* lib.rs: WitnessProgram and Error.                                       *)
(***************************************************************************)
\* struct WitnessProgram { version, program, network, bech32 }
WitnessProgram(v, p, n, b) == [version |-> v, program |-> p, network |-> n, bech32 |-> b]

\* placeholder carried by outcomes that hold no WitnessProgram
NoProgram == WitnessProgram(0, <<>>, "", <<>>)

\* enum Error: the variant, and for Error::Bech32 the codec's error
Error(variant) == [variant |-> variant, inner |-> ""]
ErrorBech32(e) == [variant |-> "Bech32", inner |-> e]
NoError == Error("")

\* what a call comes to: Ok(WitnessProgram), Err(Error), or a panic that
\* unwinds out of the call
Ok(wp) == [kind |-> "Ok", val |-> wp, err |-> NoError]
Err(e) == [kind |-> "Err", val |-> NoProgram, err |-> e]
Panicked == [kind |-> "Panic", val |-> NoProgram, err |-> NoError]
NoOutcome == [kind |-> "None", val |-> NoProgram, err |-> NoError]

\* validate without the version-0 length rule
validate_no_v0_rule(self) ==
    IF self.version > 16 THEN Error("InvalidScriptVersion")
    ELSE IF Len(self.program) < 2 \/ Len(self.program) > 40 THEN Error("InvalidLength")
    ELSE NoError

\* validate checking the program length before the script version
validate_length_first(self) ==
    IF Len(self.program) < 2 \/ Len(self.program) > 40 THEN Error("InvalidLength")
    ELSE IF self.version > 16 THEN Error("InvalidScriptVersion")
    ELSE IF self.version = 0 /\ Len(self.program) # 20 /\ Len(self.program) # 32
         THEN Error("InvalidVersionLength")
    ELSE NoError

\* WitnessProgram::validate: NoError for Ok(()), else the first rule broken
validate(self) ==
    IF self.version > 16 THEN Error("InvalidScriptVersion")
    ELSE IF Len(self.program) < 2 \/ Len(self.program) > 40 THEN Error("InvalidLength")
    ELSE IF self.version = 0 /\ Len(self.program) # 20 /\ Len(self.program) # 32
         THEN Error("InvalidVersionLength")
    ELSE NoError

\* new encoding the program without the version symbol in front
new_unversioned(version, program, network) ==
    LET enc == Bech32Encode(hrp(network), ToBase32(program))
        ret == WitnessProgram(version, program, network, enc.text)
    IN  IF ~enc.ok THEN Err(ErrorBech32(enc.err))
        ELSE IF validate(ret) # NoError THEN Err(validate(ret))
        ELSE Ok(ret)

\* WitnessProgram::new: encode first, then validate the candidate
new(version, program, network) ==
    LET enc == Bech32Encode(hrp(network), <<version>> \o ToBase32(program))
        ret == WitnessProgram(version, program, network, enc.text)
    IN  IF ~enc.ok THEN Err(ErrorBech32(enc.err))
        ELSE IF validate(ret) # NoError THEN Err(validate(ret))
        ELSE Ok(ret)

\* impl ToString: the cached text
to_string(self) == self.bech32

\* WitnessProgram::to_address
to_address(self) == to_string(self)

\* from_str capping the data at 64 symbols instead of 65
from_str_cap64(s) ==
    LET dec == Bech32Decode(s)
        network_classified == classify(dec.hrp)
        p5 == FromBase32(Tail(dec.data))
        wp == WitnessProgram(Head(dec.data), p5.out, network_classified.net, s)
    IN  IF ~dec.ok THEN Err(ErrorBech32(dec.err))
        ELSE IF ~network_classified.some THEN Err(Error("InvalidHumanReadablePart"))
        ELSE IF Len(dec.data) = 0 \/ Len(dec.data) > 64
             THEN Err(ErrorBech32("InvalidLength"))
        ELSE IF ~p5.ok THEN Err(ErrorBech32(p5.err))
        ELSE IF validate(wp) # NoError THEN Err(validate(wp))
        ELSE Ok(wp)

\* from_str checking the data length before classifying the hrp
from_str_length_first(s) ==
    LET dec == Bech32Decode(s)
        network_classified == classify(dec.hrp)
        p5 == FromBase32(Tail(dec.data))
        wp == WitnessProgram(Head(dec.data), p5.out, network_classified.net, s)
    IN  IF ~dec.ok THEN Err(ErrorBech32(dec.err))
        ELSE IF Len(dec.data) = 0 \/ Len(dec.data) > 65
             THEN Err(ErrorBech32("InvalidLength"))
        ELSE IF ~network_classified.some THEN Err(Error("InvalidHumanReadablePart"))
        ELSE IF ~p5.ok THEN Err(ErrorBech32(p5.err))
        ELSE IF validate(wp) # NoError THEN Err(validate(wp))
        ELSE Ok(wp)

\* from_str caching the lower-cased text instead of the input
from_str_canonical(s) ==
    LET dec == Bech32Decode(s)
        network_classified == classify(dec.hrp)
        p5 == FromBase32(Tail(dec.data))
        wp == WitnessProgram(Head(dec.data), p5.out, network_classified.net, ToLower(s))
    IN  IF ~dec.ok THEN Err(ErrorBech32(dec.err))
        ELSE IF ~network_classified.some THEN Err(Error("InvalidHumanReadablePart"))
        ELSE IF Len(dec.data) = 0 \/ Len(dec.data) > 65
             THEN Err(ErrorBech32("InvalidLength"))
        ELSE IF ~p5.ok THEN Err(ErrorBech32(p5.err))
        ELSE IF validate(wp) # NoError THEN Err(validate(wp))
        ELSE Ok(wp)

\* from_str capping the data at 67 symbols instead of 65
from_str_cap67(s) ==
    LET dec == Bech32Decode(s)
        network_classified == classify(dec.hrp)
        p5 == FromBase32(Tail(dec.data))
        wp == WitnessProgram(Head(dec.data), p5.out, network_classified.net, s)
    IN  IF ~dec.ok THEN Err(ErrorBech32(dec.err))
        ELSE IF ~network_classified.some THEN Err(Error("InvalidHumanReadablePart"))
        ELSE IF Len(dec.data) = 0 \/ Len(dec.data) > 67
             THEN Err(ErrorBech32("InvalidLength"))
        ELSE IF ~p5.ok THEN Err(ErrorBech32(p5.err))
        ELSE IF validate(wp) # NoError THEN Err(validate(wp))
        ELSE Ok(wp)

\* from_str applying the 65-symbol cap after regrouping instead of before
from_str_regroup_first(s) ==
    LET dec == Bech32Decode(s)
        network_classified == classify(dec.hrp)
        p5 == FromBase32(Tail(dec.data))
        wp == WitnessProgram(Head(dec.data), p5.out, network_classified.net, s)
    IN  IF ~dec.ok THEN Err(ErrorBech32(dec.err))
        ELSE IF ~network_classified.some THEN Err(Error("InvalidHumanReadablePart"))
        ELSE IF Len(dec.data) = 0 THEN Err(ErrorBech32("InvalidLength"))
        ELSE IF ~p5.ok THEN Err(ErrorBech32(p5.err))
        ELSE IF Len(dec.data) > 65 THEN Err(ErrorBech32("InvalidLength"))
        ELSE IF validate(wp) # NoError THEN Err(validate(wp))
        ELSE Ok(wp)

\* from_str classifying the hrp as it is written in s, not as the codec
\* returns it (in lower case)
from_str_raw_hrp(s) ==
    LET dec == Bech32Decode(s)
        network_classified == classify(SubSeq(s, 1, RFindSep(s) - 1))
        p5 == FromBase32(Tail(dec.data))
        wp == WitnessProgram(Head(dec.data), p5.out, network_classified.net, s)
    IN  IF ~dec.ok THEN Err(ErrorBech32(dec.err))
        ELSE IF ~network_classified.some THEN Err(Error("InvalidHumanReadablePart"))
        ELSE IF Len(dec.data) = 0 \/ Len(dec.data) > 65
             THEN Err(ErrorBech32("InvalidLength"))
        ELSE IF ~p5.ok THEN Err(ErrorBech32(p5.err))
        ELSE IF validate(wp) # NoError THEN Err(validate(wp))
        ELSE Ok(wp)

\* impl FromStr (and from_address, which calls it)
from_str(s) ==
    LET dec == Bech32Decode(s)
        network_classified == classify(dec.hrp)
        p5 == FromBase32(Tail(dec.data))
        wp == WitnessProgram(Head(dec.data), p5.out, network_classified.net, s)
    IN  IF ~dec.ok THEN Err(ErrorBech32(dec.err))
        ELSE IF ~network_classified.some THEN Err(Error("InvalidHumanReadablePart"))
        ELSE IF Len(dec.data) = 0 \/ Len(dec.data) > 65
             THEN Err(ErrorBech32("InvalidLength"))
        ELSE IF ~p5.ok THEN Err(ErrorBech32(p5.err))
        ELSE IF validate(wp) # NoError THEN Err(validate(wp))
        ELSE Ok(wp)

from_address(address) == from_str(address)

\* to_scriptpubkey adding the offset to version 0 as well
to_scriptpubkey_always_offset(self) ==
    <<self.version + 80, Len(self.program) % 256>> \o self.program

\* WitnessProgram::to_scriptpubkey: opcode, length byte (`as u8`), program
to_scriptpubkey(self) ==
    LET v == IF self.version > 0 THEN self.version + 80 ELSE self.version
    IN  <<v, Len(self.program) % 256>> \o self.program

\* from_scriptpubkey subtracting 0x51 instead of 0x50
from_scriptpubkey_offset_81(pubkey, network) ==
    IF Len(pubkey) < 4 THEN Err(Error("ScriptPubkeyTooShort"))
    ELSE IF Len(pubkey) # 2 + pubkey[2] THEN Err(Error("ScriptPubkeyInvalidLength"))
    ELSE LET v == IF pubkey[1] > 80 THEN pubkey[1] - 81 ELSE pubkey[1]
         IN  IF v > 31 THEN Panicked
             ELSE new(v, SubSeq(pubkey, 3, Len(pubkey)), network)

\* from_scriptpubkey asking for three bytes instead of four
from_scriptpubkey_min3(pubkey, network) ==
    IF Len(pubkey) < 3 THEN Err(Error("ScriptPubkeyTooShort"))
    ELSE IF Len(pubkey) # 2 + pubkey[2] THEN Err(Error("ScriptPubkeyInvalidLength"))
    ELSE LET v == IF pubkey[1] > 80 THEN pubkey[1] - 80 ELSE pubkey[1]
         IN  IF v > 31 THEN Panicked
             ELSE new(v, SubSeq(pubkey, 3, Len(pubkey)), network)

\* WitnessProgram::from_scriptpubkey.  u5::try_from_u8 refuses a value above
\* 31 and the expect() on it panics.
from_scriptpubkey(pubkey, network) ==
    IF Len(pubkey) < 4 THEN Err(Error("ScriptPubkeyTooShort"))
    ELSE IF Len(pubkey) # 2 + pubkey[2] THEN Err(Error("ScriptPubkeyInvalidLength"))
    ELSE LET v == IF pubkey[1] > 80 THEN pubkey[1] - 80 ELSE pubkey[1]
         IN  IF v > 31 THEN Panicked
             ELSE new(v, SubSeq(pubkey, 3, Len(pubkey)), network)

\* the accessors
version(self) == self.version
program(self) == self.program
network(self) == self.network


\* #[derive(PartialEq)] on WitnessProgram: all four fields are compared
eq(a, b) ==
    /\ a.version = b.version
    /\ a.program = b.program
    /\ a.network = b.network
    /\ a.bech32 = b.bech32

(***************************************************************************)
(* The inputs the calls are explored with.                                 *)
(***************************************************************************)
Versions == 0..MaxVersion
Patterns == 0..MaxPattern

\* program lengths: the short ones and those around the limits validate
\* compares with (2, 20, 32, 40)
ProgLens == (0..MaxShortLen) \cup {19, 20, 21, 32, 40, 41}

\* networks passed to the constructors (hrps of 2 and 5 characters)
InputNetworks == {"Bitcoin", "MonacoinTestnet"}

\* "tc", the unclassified hrp of tests::invalid_address
UnknownHrp == <<116, 99>>

InputHrps == {hrp(n) : n \in InputNetworks} \cup {UnknownHrp}

\* the program of a given length and byte pattern
Prog(len, pat) == Tuple([i \in 1..len |-> (151 * pat + 37 * i + 7) % 256])

\* the 5-bit data of an address: the version symbol and the regrouped
\* program ("plain"), nothing at all ("empty"), one symbol too many
\* ("extra"), or the last symbol with its low bit flipped ("oddbit")
AddressData(v, len, pat, df) ==
    LET plain == <<v>> \o ToBase32(Prog(len, pat))
        last  == plain[Len(plain)]
    IN  CASE df = "plain"  -> plain
          [] df = "empty"  -> <<>>
          [] df = "extra"  -> plain \o <<0>>
          [] df = "oddbit" -> [plain EXCEPT ![Len(plain)] = last + 1 - 2 * (last % 2)]

\* an address text for hrp h and data: as encoded ("lower"), all in upper
\* case ("upper"), with only the first character in upper case ("mixed"),
\* or with the last checksum character replaced ("badsum")
AddressText(h, data, tf) ==
    LET lower == Bech32Encode(h, data).text
        n     == Len(lower)
    IN  CASE tf = "lower"  -> lower
          [] tf = "upper"  -> ToUpper(lower)
          [] tf = "mixed"  -> <<ToUpperChar(lower[1])>> \o Tail(lower)
          [] tf = "badsum" ->
                [lower EXCEPT ![n] = CHARSET[((SymbolOf(lower[n]) + 1) % 32) + 1]]

\* the address texts offered to from_address: every program in both cases,
\* and for pattern 0 the damaged texts and the damaged data
AddressForms ==
    {<<tf, "plain", pat>> : tf \in {"lower", "upper"}, pat \in Patterns}
        \cup {<<tf, "plain", 0>> : tf \in {"mixed", "badsum"}}
        \cup {<<"lower", df, 0>> : df \in {"empty", "extra", "oddbit"}}

\* the same address in the other uniform case: all in lower case when s
\* holds an upper-case letter, all in upper case otherwise
OtherCase(s) ==
    IF \E i \in 1..Len(s) : IsUpper(s[i]) THEN ToLower(s) ELSE ToUpper(s)

\* "rmona", the string of the classify arm for Network::MonacoinRegtest
RegtestHrp == <<114, 109, 111, 110, 97>>

\* the strings offered to classify: every string of the two tables, "tc",
\* the empty string, "BC", and "bc1"
ClassifyInputs ==
    {hrp(n) : n \in Network}
        \cup {RegtestHrp, UnknownHrp, <<>>, ToUpper(hrp("Bitcoin")),
              hrp("Bitcoin") \o <<SEP>>}

\* the byte strings offered to from_scriptpubkey: opcode, length byte (the
\* program's length or one more), program
Opcodes == 0..255

(***************************************************************************)
(* The state: one caller that constructs a WitnessProgram, uses it and     *)
(* drops it.                                                               *)
(***************************************************************************)
VARIABLES
    pc,         \* "idle", "returned" (a constructor just returned),
                \* "live" (the instance has been used), "aborted" (panic)
    call,       \* the constructor call made: its name and arguments
    res,        \* what the constructor call came to
    addr_log,   \* what to_address() returned, call after call
    script,     \* what to_scriptpubkey() returned, <<>> before the call
    rt_op,      \* the constructor the instance was parsed back with
    rt          \* what parsing back came to

vars == <<pc, call, res, addr_log, script, rt_op, rt>>

NoCall == [op |-> "none", version |-> 0, program |-> <<>>, network |-> "",
           address |-> <<>>, pubkey |-> <<>>]

Init ==
    /\ pc = "idle"
    /\ call = NoCall
    /\ res = NoOutcome
    /\ addr_log = <<>>
    /\ script = <<>>
    /\ rt_op = "none"
    /\ rt = NoOutcome

\* the constructor returned (or panicked): record the outcome
Return(c, outcome) ==
    /\ pc' = IF outcome.kind = "Panic" THEN "aborted" ELSE "returned"
    /\ call' = c
    /\ res' = outcome
    /\ UNCHANGED <<addr_log, script, rt_op, rt>>

\* WitnessProgram::new(version, program, network)
New ==
    /\ pc = "idle"
    /\ \E v \in Versions, len \in ProgLens, pat \in Patterns, n \in InputNetworks :
           Return([NoCall EXCEPT !.op = "new", !.version = v,
                                 !.program = Prog(len, pat), !.network = n],
                  new(v, Prog(len, pat), n))

\* WitnessProgram::new on every network of the enum, with one version-0
\* program of 32 bytes
NewOnNetwork ==
    /\ pc = "idle"
    /\ \E n \in Network :
           Return([NoCall EXCEPT !.op = "new", !.version = 0,
                                 !.program = Prog(32, 0), !.network = n],
                  new(0, Prog(32, 0), n))

\* WitnessProgram::from_address(address)
FromAddress ==
    /\ pc = "idle"
    /\ \E h \in InputHrps, v \in Versions, len \in ProgLens, f \in AddressForms :
           \E s \in {AddressText(h, AddressData(v, len, f[3], f[2]), f[1])} :
               Return([NoCall EXCEPT !.op = "from_address", !.address = s],
                      from_address(s))

\* WitnessProgram::from_scriptpubkey(pubkey, network) on opcode, length
\* byte and program
FromScriptPubkey ==
    /\ pc = "idle"
    /\ \E op \in Opcodes, len \in ProgLens, extra \in {0, 1},
          pat \in Patterns, n \in InputNetworks :
           \E pubkey \in {<<op, (len + extra) % 256>> \o Prog(len, pat)} :
               Return([NoCall EXCEPT !.op = "from_scriptpubkey",
                                     !.pubkey = pubkey, !.network = n],
                      from_scriptpubkey(pubkey, n))

\* WitnessProgram::from_scriptpubkey on fewer than two bytes
FromShortScriptPubkey ==
    /\ pc = "idle"
    /\ \E len \in 0..1, pat \in Patterns, n \in InputNetworks :
           Return([NoCall EXCEPT !.op = "from_scriptpubkey",
                                 !.pubkey = Prog(len, pat), !.network = n],
                  from_scriptpubkey(Prog(len, pat), n))

\* what a call of hrp or classify returned
Value(x) == [kind |-> "Value", val |-> x, err |-> NoError]

\* constants::hrp(network)
Hrp ==
    /\ pc = "idle"
    /\ \E n \in Network :
           Return([NoCall EXCEPT !.op = "hrp", !.network = n], Value(hrp(n)))

\* constants::classify(hrp)
Classify ==
    /\ pc = "idle"
    /\ \E s \in ClassifyInputs :
           Return([NoCall EXCEPT !.op = "classify", !.address = s],
                  Value(classify(s)))

\* classify(&hrp(&n)), as new and from_str chain them
ClassifyBack ==
    /\ pc = "returned"
    /\ call.op = "hrp"
    /\ rt_op' = "classify"
    /\ rt' = Value(classify(res.val))
    /\ pc' = "live"
    /\ UNCHANGED <<call, res, addr_log, script>>

\* hrp(&n) on the network classify returned
HrpBack ==
    /\ pc = "returned"
    /\ call.op = "classify"
    /\ res.val.some
    /\ rt_op' = "hrp"
    /\ rt' = Value(hrp(res.val.net))
    /\ pc' = "live"
    /\ UNCHANGED <<call, res, addr_log, script>>

\* a WitnessProgram is held
Live == pc \in {"returned", "live"} /\ res.kind = "Ok"

\* to_address() on the instance
ToAddress ==
    /\ Live
    /\ Len(addr_log) < MaxCalls
    /\ addr_log' = Append(addr_log, to_address(res.val))
    /\ pc' = "live"
    /\ UNCHANGED <<call, res, script, rt_op, rt>>

\* to_scriptpubkey() on the instance
ToScriptPubkey ==
    /\ Live
    /\ script = <<>>
    /\ script' = to_scriptpubkey(res.val)
    /\ pc' = "live"
    /\ UNCHANGED <<call, res, addr_log, rt_op, rt>>

\* from_address(p.to_address())
ReparseAddress ==
    /\ Live
    /\ rt_op = "none"
    /\ addr_log # <<>>
    /\ rt_op' = "from_address"
    /\ rt' = from_address(addr_log[Len(addr_log)])
    /\ pc' = "live"
    /\ UNCHANGED <<call, res, addr_log, script>>

\* from_scriptpubkey(p.to_scriptpubkey(), p.network())
ReparseScript ==
    /\ Live
    /\ rt_op = "none"
    /\ script # <<>>
    /\ rt_op' = "from_scriptpubkey"
    /\ rt' = from_scriptpubkey(script, network(res.val))
    /\ pc' = "live"
    /\ UNCHANGED <<call, res, addr_log, script>>

\* from_address on the address the instance was decoded from, written in
\* the other uniform case
FromAddressOtherCase ==
    /\ Live
    /\ call.op = "from_address"
    /\ rt_op = "none"
    /\ rt_op' = "from_address_other_case"
    /\ rt' = from_address(OtherCase(call.address))
    /\ pc' = "live"
    /\ UNCHANGED <<call, res, addr_log, script>>

\* the caller drops what it holds (a value or an error) and starts over
Drop ==
    /\ pc \in {"returned", "live"}
    /\ pc' = "idle"
    /\ call' = NoCall
    /\ res' = NoOutcome
    /\ addr_log' = <<>>
    /\ script' = <<>>
    /\ rt_op' = "none"
    /\ rt' = NoOutcome

Next ==
    \/ New
    \/ NewOnNetwork
    \/ FromAddress
    \/ FromScriptPubkey
    \/ FromShortScriptPubkey
    \/ ToAddress
    \/ ToScriptPubkey
    \/ ReparseAddress
    \/ ReparseScript
    \/ FromAddressOtherCase
    \/ Hrp
    \/ Classify
    \/ ClassifyBack
    \/ HrpBack
    \/ Drop

Spec == Init /\ [][Next]_vars

(***************************************************************************)
(* The claims.                                                             *)
(***************************************************************************)
\* the three validity rules on a version and a program
ValidParts(v, p) ==
    /\ v <= 16
    /\ Len(p) >= 2 /\ Len(p) <= 40
    /\ (v = 0 => Len(p) \in {20, 32})

HasUpper(s) == \E i \in 1..Len(s) : IsUpper(s[i])

\* the codec encoding of (hrp(network), [version] ++ base32(program))
CanonicalText(wp) ==
    Bech32Encode(hrp(wp.network), <<wp.version>> \o ToBase32(wp.program)).text

\* C1: every WitnessProgram a constructor returns (new, from_address,
\* from_scriptpubkey, first construction or parsing back) has version <= 16,
\* a program of 2..40 bytes, and 20 or 32 bytes when the version is 0.
C1_ConstructedIsValid ==
    /\ (res.kind = "Ok" => ValidParts(res.val.version, res.val.program))
    /\ (rt.kind = "Ok" => ValidParts(rt.val.version, rt.val.program))

\* C1 witness: a version-0, 32-byte program decoded from an address and parsed back from its script
C1_Witness ==
    /\ call.op = "from_address" /\ res.kind = "Ok"
    /\ res.val.version = 0 /\ Len(res.val.program) = 32
    /\ rt_op = "from_scriptpubkey" /\ rt.kind = "Ok"

\* C2: for every version 0..16, program of 2..40 bytes obeying the
\* version-0 rule and network, new succeeds, and from_address of its
\* to_address() succeeds with a WitnessProgram equal to the one new returned.
C2_AddressRoundTrip ==
    (call.op = "new" /\ ValidParts(call.version, call.program)) =>
        /\ res.kind = "Ok"
        /\ (rt_op = "from_address" => rt.kind = "Ok" /\ eq(rt.val, res.val))

\* C2 witness: new on version 16 and 40 bytes, parsed back from its address
C2_Witness ==
    /\ call.op = "new" /\ call.version = 16 /\ Len(call.program) = 40
    /\ rt_op = "from_address" /\ rt.kind = "Ok"

\* C3 as stated: for every valid WitnessProgram p, however constructed,
\* from_scriptpubkey(p.to_scriptpubkey(), p.network()) succeeds and is equal
\* to p under the derived equality (version, program, network, cached text).
C3_ScriptRoundTripEqual ==
    rt_op = "from_scriptpubkey" => rt.kind = "Ok" /\ eq(rt.val, res.val)

\* C3 amended: from_scriptpubkey(p.to_scriptpubkey(), p.network()) succeeds
\* with the version, program and network of p and a cached text equal to
\* p's up to letter case; it is equal to p under the derived equality
\* exactly when p's cached text holds no upper-case letter.
C3_ScriptRoundTripUpToCase ==
    rt_op = "from_scriptpubkey" =>
        /\ rt.kind = "Ok"
        /\ rt.val.version = res.val.version
        /\ rt.val.program = res.val.program
        /\ rt.val.network = res.val.network
        /\ ToLower(rt.val.bech32) = ToLower(res.val.bech32)
        /\ (eq(rt.val, res.val) <=> ~HasUpper(res.val.bech32))

\* C3 witness: an instance decoded from upper-case text, parsed back from its script and unequal to it
C3_Witness ==
    /\ rt_op = "from_scriptpubkey" /\ rt.kind = "Ok"
    /\ call.op = "from_address" /\ HasUpper(call.address)
    /\ ~eq(rt.val, res.val)

\* C4 as stated: whichever constructor returned it, the cached text of a
\* WitnessProgram is exactly the codec encoding of (hrp(network),
\* [version] ++ base32(program)).  The instance is checked as its
\* constructor returns; nothing writes it afterwards.
C4_TextIsEncoding ==
    (pc = "returned" /\ res.kind = "Ok") =>
        to_address(res.val) = CanonicalText(res.val)

\* C4 amended: the cached text is the codec encoding up to letter case, and
\* exactly the encoding unless from_address was given upper-case text.
C4_TextIsEncodingUpToCase ==
    (pc = "returned" /\ res.kind = "Ok") =>
        /\ ToLower(to_address(res.val)) = CanonicalText(res.val)
        /\ (to_address(res.val) = CanonicalText(res.val)
                <=> ~(call.op = "from_address" /\ HasUpper(call.address)))

\* C4 witness: an instance decoded from upper-case text, whose cached text is not the encoding
C4_Witness ==
    /\ pc = "returned" /\ res.kind = "Ok"
    /\ call.op = "from_address" /\ HasUpper(call.address)
    /\ to_address(res.val) # CanonicalText(res.val)

\* C5: from_scriptpubkey comes to Ok or Err for every byte string and
\* network and never aborts: the value taken from the opcode byte is in
\* 0..31 whenever the version step is reached.
C5_NeverAborts ==
    call.op = "from_scriptpubkey" => res.kind \in {"Ok", "Err"}

\* C6: new fails with InvalidScriptVersion when version > 16; otherwise with
\* InvalidLength when the program is shorter than 2 or longer than 40;
\* otherwise with InvalidVersionLength when version is 0 and the length is
\* neither 20 nor 32; otherwise it succeeds with the parts it was given.
C6_NewOutcome ==
    call.op = "new" =>
        LET v == call.version
            n == Len(call.program)
        IN  IF v > 16 THEN res = Err(Error("InvalidScriptVersion"))
            ELSE IF n < 2 \/ n > 40 THEN res = Err(Error("InvalidLength"))
            ELSE IF v = 0 /\ n # 20 /\ n # 32 THEN res = Err(Error("InvalidVersionLength"))
            ELSE /\ res.kind = "Ok"
                 /\ res.val.version = v
                 /\ res.val.program = call.program
                 /\ res.val.network = call.network

\* C6 witness: new on version 0 and 21 bytes fails with InvalidVersionLength
C6_Witness ==
    /\ call.op = "new" /\ call.version = 0 /\ Len(call.program) = 21
    /\ res = Err(Error("InvalidVersionLength"))

\* C7: to_scriptpubkey() is [op, len(program)] followed by the program,
\* len(program) + 2 bytes in all, with op 0x00 for version 0 and
\* version + 0x50 (0x51..0x60) for versions 1..16, and the length byte is
\* len(program) itself.
C7_ScriptLayout ==
    script # <<>> =>
        LET p == res.val
        IN  /\ Len(script) = Len(p.program) + 2
            /\ script[1] = (IF p.version = 0 THEN 0 ELSE p.version + 80)
            /\ (p.version # 0 => script[1] \in 81..96)
            /\ script[2] = Len(p.program)
            /\ SubSeq(script, 3, Len(script)) = p.program

\* C7 witness: the script of a version-16, 40-byte program: opcode 0x60, length byte 40
C7_Witness ==
    /\ script # <<>> /\ res.val.version = 16 /\ Len(res.val.program) = 40
    /\ script[1] = 96 /\ script[2] = 40

\* C8: from_scriptpubkey fails with ScriptPubkeyTooShort on fewer than 4
\* bytes, and on 4 bytes or more whose second byte is not the length minus
\* 2 with ScriptPubkeyInvalidLength, whatever the opcode.
C8_ScriptLengthErrors ==
    call.op = "from_scriptpubkey" =>
        /\ (Len(call.pubkey) < 4 => res = Err(Error("ScriptPubkeyTooShort")))
        /\ (Len(call.pubkey) >= 4 /\ call.pubkey[2] # Len(call.pubkey) - 2
                => res = Err(Error("ScriptPubkeyInvalidLength")))

\* C8 witness: opcode 0xff with a wrong length byte fails with ScriptPubkeyInvalidLength
C8_Witness ==
    /\ call.op = "from_scriptpubkey" /\ Len(call.pubkey) >= 4
    /\ call.pubkey[1] = 255 /\ call.pubkey[2] # Len(call.pubkey) - 2
    /\ res = Err(Error("ScriptPubkeyInvalidLength"))

\* C9: from_address on a text the codec decodes but whose hrp classify does
\* not know fails with InvalidHumanReadablePart whatever the data; on a text
\* with a bad checksum it fails with the codec's InvalidChecksum.
C9_PrefixErrors ==
    (call.op = "from_address" /\ pc = "returned") =>
        LET dec == Bech32Decode(call.address)
        IN  /\ (dec.ok /\ ~classify(dec.hrp).some
                    => res = Err(Error("InvalidHumanReadablePart")))
            /\ (dec.err = "InvalidChecksum"
                    => res = Err(ErrorBech32("InvalidChecksum")))

\* C9 witness: an unclassified hrp with more than 65 data symbols fails with InvalidHumanReadablePart
C9_Witness ==
    /\ call.op = "from_address" /\ pc = "returned"
    /\ res = Err(Error("InvalidHumanReadablePart"))
    /\ Len(Bech32Decode(call.address).data) > 65

\* C10: when from_address(s) succeeds, every to_address() on the result
\* returns s character for character, and all to_address() calls on one
\* instance return the same text.
C10_AddressVerbatim ==
    /\ (call.op = "from_address" /\ res.kind = "Ok")
            => \A i \in 1..Len(addr_log) : addr_log[i] = call.address
    /\ \A i, j \in 1..Len(addr_log) : addr_log[i] = addr_log[j]

\* C10 witness: two to_address() calls on an instance decoded from upper-case text
C10_Witness ==
    /\ call.op = "from_address" /\ res.kind = "Ok"
    /\ HasUpper(call.address) /\ Len(addr_log) = 2
    /\ addr_log[2] = call.address

\* C11 as stated: for every valid address, from_address of its all-upper-case
\* form and of its all-lower-case form both succeed, and the two
\* WitnessPrograms are equal under the derived equality.
C11_CaseDecodesEqual ==
    rt_op = "from_address_other_case" => rt.kind = "Ok" /\ eq(rt.val, res.val)

\* C11 amended: both forms decode successfully to the same version, program
\* and network; each keeps its own text, so the cached texts are equal only
\* up to letter case and the two are never equal under the derived equality.
C11_CaseDecodesSameParts ==
    rt_op = "from_address_other_case" =>
        /\ rt.kind = "Ok"
        /\ rt.val.version = res.val.version
        /\ rt.val.program = res.val.program
        /\ rt.val.network = res.val.network
        /\ rt.val.bech32 = OtherCase(call.address)
        /\ ToLower(rt.val.bech32) = ToLower(res.val.bech32)
        /\ rt.val.bech32 # res.val.bech32
        /\ ~eq(rt.val, res.val)

\* C11 witness: an address decoded in lower case and again in upper case,
\* with equal parts and unequal texts
C11_Witness ==
    /\ rt_op = "from_address_other_case" /\ rt.kind = "Ok"
    /\ ~HasUpper(call.address) /\ HasUpper(rt.val.bech32)
    /\ rt.val.program = res.val.program /\ ~eq(rt.val, res.val)

\* C12: the two tables are mutually inverse and total: classify(hrp(n)) is
\* Some(n) for every variant n of Network; whenever classify(s) is Some(n),
\* n is a variant of Network and hrp(n) is s; distinct networks have
\* distinct prefixes; every other string classifies to None.
C12_TablesInverse ==
    /\ (call.op = "hrp" /\ rt_op = "classify") => rt.val = Some(call.network)
    /\ call.op = "hrp" =>
            \A m \in Network : hrp(m) = res.val => m = call.network
    /\ call.op = "classify" =>
            IF res.val.some
            THEN /\ res.val.net \in Network
                 /\ (rt_op = "hrp" => rt.val = call.address)
            ELSE call.address \notin {hrp(n) : n \in Network}

\* C13 as stated: on a text with a valid checksum and a known prefix,
\* from_address returns Bech32(InvalidLength) exactly when the decoded data
\* is empty or longer than 65 symbols, whatever regrouping or validation
\* would say; and whenever the data regroups to a program shorter than 2
\* bytes the error is the witness-program InvalidLength.
C13_LengthErrors ==
    (call.op = "from_address" /\ pc = "returned") =>
        LET dec == Bech32Decode(call.address)
            n   == Len(dec.data)
            p5  == FromBase32(Tail(dec.data))
        IN  (dec.ok /\ classify(dec.hrp).some) =>
                /\ (res = Err(ErrorBech32("InvalidLength")) <=> (n = 0 \/ n > 65))
                /\ ((n >= 1 /\ n <= 65 /\ p5.ok /\ Len(p5.out) < 2)
                        => res = Err(Error("InvalidLength")))

\* C13 amended: Bech32(InvalidLength) exactly when the data is empty or
\* longer than 65 symbols, before regrouping and validation; data of 1..65
\* symbols that regroups to a program shorter than 2 bytes gives the
\* witness-program InvalidLength when the version symbol is at most 16 and
\* InvalidScriptVersion when it is 17 or more.
C13_LengthErrorsByVersion ==
    (call.op = "from_address" /\ pc = "returned") =>
        LET dec == Bech32Decode(call.address)
            n   == Len(dec.data)
            p5  == FromBase32(Tail(dec.data))
        IN  (dec.ok /\ classify(dec.hrp).some) =>
                /\ (res = Err(ErrorBech32("InvalidLength")) <=> (n = 0 \/ n > 65))
                /\ ((n >= 1 /\ n <= 65 /\ p5.ok /\ Len(p5.out) < 2)
                        => res = (IF Head(dec.data) <= 16
                                  THEN Err(Error("InvalidLength"))
                                  ELSE Err(Error("InvalidScriptVersion"))))

\* C13 witness: a lone version symbol of 17 with a known prefix is refused
\* with InvalidScriptVersion, not InvalidLength
C13_Witness ==
    /\ call.op = "from_address" /\ pc = "returned"
    /\ Bech32Decode(call.address).data = <<17>>
    /\ classify(Bech32Decode(call.address).hrp).some
    /\ res = Err(Error("InvalidScriptVersion"))

\* C14: the 65-symbol cap of from_address matches the 40-byte limit: data of
\* 1..65 symbols whose payload regroups gives a program of at most 40
\* bytes; a 40-byte program comes from exactly 64 payload symbols (65 with
\* the version); so when from_address fails with the witness-program
\* InvalidLength the program is shorter than 2 bytes, never longer than 40.
C14_CapMatchesLimit ==
    (call.op = "from_address" /\ pc = "returned") =>
        LET dec == Bech32Decode(call.address)
            n   == Len(dec.data)
            p5  == FromBase32(Tail(dec.data))
        IN  /\ (dec.ok /\ n >= 1 /\ n <= 65 /\ p5.ok) => Len(p5.out) <= 40
            /\ (dec.ok /\ n >= 1 /\ p5.ok /\ Len(p5.out) = 40) => n = 65
            /\ res = Err(Error("InvalidLength")) => Len(p5.out) < 2

\* C14 witness: an address of 65 symbols decoded to a 40-byte program
C14_Witness ==
    /\ call.op = "from_address" /\ pc = "returned" /\ res.kind = "Ok"
    /\ Len(Bech32Decode(call.address).data) = 65
    /\ Len(res.val.program) = 40

\* C15: from_scriptpubkey is the exact inverse of to_scriptpubkey on what it
\* accepts: when from_scriptpubkey(b, n) succeeds with p, the opcode byte of
\* b is 0x00 or 0x51..0x60 and p.to_scriptpubkey() is b, so no two distinct
\* scripts give the same WitnessProgram.
C15_ScriptInverse ==
    (call.op = "from_scriptpubkey" /\ res.kind = "Ok") =>
        /\ call.pubkey[1] \in {0} \cup (81..96)
        /\ (script # <<>> => script = call.pubkey)

=============================================================================
